---- MODULE Spec2Model ----
(***************************************************************************)
(* Marks management page (Home component) and its storage helpers:         *)
(* the roster of students and exams held in React state, the localStorage  *)
(* session, CSV / JSON import, mark entry, and the scaling and rounding    *)
(* passes applied per exam.                                                 *)
(*                                                                         *)
(* Numbers are exact.  A raw mark, totalMarks and scalingValue are         *)
(* rationals [n, d] with d > 0 in lowest terms; d = 0 encodes the          *)
(* JavaScript value NaN.  A scaled mark is a real of the form              *)
(* n/d + sg * sqrt(qn/qd), which is closed under the four scaling          *)
(* formulas (the bell curve divides by a standard deviation).              *)
(***************************************************************************)
EXTENDS Integers, Sequences, FiniteSets, TLC

VARIABLES
    data,             \* useState<MarksData>: [students, exams]
    localStorage,     \* window.localStorage: key -> item
    showSessionModal, \* useState(false)
    lastSessionData,  \* useState<MarksData | null>
    mounted,          \* whether the mount effects of Home have run
    clock,            \* Date.now(), counted in exams created
    ops,              \* how many handler calls the user has made (or Unlimited)
    last              \* the most recent handler call and its outcome

vars == <<data, localStorage, showSessionModal, lastSessionData, mounted, clock, ops, last>>

----------------------------------------------------------------------------
(* Bounds of the model *)

MaxOps == 4        \* handler calls explored from the initial state
MaxExams == 1      \* exams added through the add-exam prompts
MaxStudents == 3   \* roster size handed to the scaling engine
MaxMark == 1       \* raw marks handed to the scaling engine: -1..MaxMark
MaxCohort == 11    \* size of the class with a few outlying marks

----------------------------------------------------------------------------
(* Exact arithmetic *)

Abs(x) == IF x < 0 THEN -x ELSE x

RECURSIVE Gcd(_, _)
Gcd(a, b) == IF b = 0 THEN a ELSE Gcd(b, a % b)

\* the rational n/d in lowest terms with a positive denominator (d # 0)
Rat(n, d) ==
    LET g == Gcd(Abs(n), Abs(d))
        s == IF d < 0 THEN -1 ELSE 1
    IN  [n |-> s * (n \div g), d |-> s * (d \div g)]

IntR(k) == [n |-> k, d |-> 1]
Zero == IntR(0)
NaN == [n |-> 0, d |-> 0]
Infinity == [n |-> 1, d |-> 0]

RAdd(x, y) == Rat(x.n * y.d + y.n * x.d, x.d * y.d)
RSub(x, y) == Rat(x.n * y.d - y.n * x.d, x.d * y.d)
RMul(x, y) == Rat(x.n * y.n, x.d * y.d)
RDiv(x, y) == Rat(x.n * y.d, x.d * y.n)
RLt(x, y) == x.n * y.d < y.n * x.d
RLe(x, y) == x.n * y.d <= y.n * x.d
RSign(x) == IF x.n > 0 THEN 1 ELSE IF x.n < 0 THEN -1 ELSE 0

\* largest r with r * r <= k, for k >= 0
RECURSIVE ISqrtFrom(_, _)
ISqrtFrom(k, r) == IF (r + 1) * (r + 1) > k THEN r ELSE ISqrtFrom(k, r + 1)
ISqrt(k) == ISqrtFrom(k, 0)

\* the real a + sg * sqrt(q) for rationals a and q >= 0, in canonical form:
\* a rational square root is folded into the rational part
Real(a, sg, q) ==
    LET rn == ISqrt(q.n)
        rd == ISqrt(q.d)
    IN  IF sg = 0 \/ q.n = 0
        THEN [n |-> a.n, d |-> a.d, sg |-> 0, qn |-> 0, qd |-> 1]
        ELSE IF rn * rn = q.n /\ rd * rd = q.d
             THEN LET r == RAdd(a, Rat(sg * rn, rd))
                  IN  [n |-> r.n, d |-> r.d, sg |-> 0, qn |-> 0, qd |-> 1]
             ELSE [n |-> a.n, d |-> a.d, sg |-> sg, qn |-> q.n, qd |-> q.d]

RealOf(a) == Real(a, 0, Zero)
RatPart(x) == [n |-> x.n, d |-> x.d]
Radicand(x) == [n |-> x.qn, d |-> x.qd]

\* c <= sg * sqrt(q), for a rational c
LeSurd(c, sg, q) ==
    CASE sg = 0 -> c.n <= 0
      [] sg = 1 -> c.n <= 0 \/ RLe(RMul(c, c), q)
      [] OTHER  -> c.n <= 0 /\ RLe(q, RMul(c, c))

\* c <= x, for a rational c and a real x
RLeReal(c, x) == LeSurd(RSub(c, RatPart(x)), x.sg, Radicand(x))

----------------------------------------------------------------------------
(* Data model: Student, Exam, MarksData *)

Methods == {"bellCurve", "linearNormalization", "minMaxNormalization", "percentile"}

\* an object used as a sparse map (Student.marks, scaledMarks, roundedMarks)
EmptyMap == <<>>
Has(m, k) == k \in DOMAIN m
Put(m, k, v) == [x \in (DOMAIN m) \cup {k} |-> IF x = k THEN v ELSE m[x]]

NewStudent(id, name) ==
    [id |-> id, name |-> name, marks |-> EmptyMap,
     scaledMarks |-> EmptyMap, roundedMarks |-> EmptyMap]

EmptyData == [students |-> <<>>, exams |-> <<>>]

\* Array.prototype.map
Map(seq, F(_)) == [i \in 1..Len(seq) |-> F(seq[i])]

RECURSIVE SumR(_)
SumR(seq) == IF seq = <<>> THEN Zero ELSE RAdd(Head(seq), SumR(Tail(seq)))

----------------------------------------------------------------------------
(* Scaling engine and rounder (utils/scaling) *)

\* the raw marks of the students holding one for the exam, in roster order
\* (students.filter(s => s.marks[examId] !== undefined).map(s => s.marks[examId]))
RECURSIVE RawMarksOf(_, _)
RawMarksOf(students, examId) ==
    IF students = <<>> THEN <<>>
    ELSE (IF Has(Head(students).marks, examId)
          THEN <<Head(students).marks[examId]>> ELSE <<>>)
         \o RawMarksOf(Tail(students), examId)

Returned(students) == [error |-> "none", students |-> students]
Thrown(kind, students) == [error |-> kind, students |-> students]

\* the JavaScript value null (also what JSON.stringify writes for NaN and Infinity)
Null == [null |-> TRUE]

\* the value is a number and neither NaN nor infinite
IsFinite(x) == x # Null /\ x.d # 0

HasNonFinite(marks) == \E i \in 1..Len(marks) : ~IsFinite(marks[i])

\* every student with a raw mark gets scaledMarks[examId] = F(raw)
WithScaled(students, examId, F(_)) ==
    Map(students, LAMBDA s :
        IF Has(s.marks, examId)
        THEN [s EXCEPT !.scaledMarks = Put(@, examId, F(s.marks[examId]))]
        ELSE s)

Mean(marks) == RDiv(SumR(marks), IntR(Len(marks)))

\* population variance
Variance(marks) ==
    LET mu == Mean(marks)
    IN  RDiv(SumR(Map(marks, LAMBDA m : RMul(RSub(m, mu), RSub(m, mu)))),
             IntR(Len(marks)))

\* scalingValue/2 + z * scalingValue/6 with z = (raw - mean)/stddev, given the
\* mean and the variance (stddev squared) of the cohort; z = 0 when stddev = 0
BellCurveValue(raw, mean, variance, scalingValue) ==
    LET half == RDiv(scalingValue, IntR(2))
        dev == RMul(RSub(raw, mean), RDiv(scalingValue, IntR(6)))
    IN  IF variance.n = 0 THEN RealOf(half)
        ELSE Real(half, RSign(dev), RDiv(RMul(dev, dev), variance))

applyBellCurveScaling(students, exam) ==
    LET marks == RawMarksOf(students, exam.id)
        mean == Mean(marks)
        variance == Variance(marks)
    IN  IF marks = <<>> THEN Returned(students)
        ELSE IF HasNonFinite(marks) THEN Thrown("NonFiniteInput", students)
        ELSE Returned(WithScaled(students, exam.id,
                 LAMBDA raw : BellCurveValue(raw, mean, variance, exam.scalingValue)))

\* (raw / totalMarks) * scalingValue
LinearValue(raw, totalMarks, scalingValue) ==
    RealOf(RMul(RDiv(raw, totalMarks), scalingValue))

applyLinearNormalization(students, exam) ==
    IF exam.totalMarks.n = 0 THEN Thrown("ConfigurationError", students)
    ELSE IF HasNonFinite(RawMarksOf(students, exam.id))
         THEN Thrown("NonFiniteInput", students)
    ELSE Returned(WithScaled(students, exam.id,
             LAMBDA raw : LinearValue(raw, exam.totalMarks, exam.scalingValue)))

RECURSIVE MinR(_)
MinR(marks) ==
    IF Len(marks) = 1 THEN marks[1]
    ELSE LET m == MinR(Tail(marks)) IN IF RLt(marks[1], m) THEN marks[1] ELSE m

RECURSIVE MaxR(_)
MaxR(marks) ==
    IF Len(marks) = 1 THEN marks[1]
    ELSE LET m == MaxR(Tail(marks)) IN IF RLt(m, marks[1]) THEN marks[1] ELSE m

\* ((raw - min) / (max - min)) * scalingValue; scalingValue when max = min
MinMaxValue(raw, min, max, scalingValue) ==
    IF max = min THEN RealOf(scalingValue)
    ELSE RealOf(RMul(RDiv(RSub(raw, min), RSub(max, min)), scalingValue))

applyMinMaxNormalization(students, exam) ==
    LET marks == RawMarksOf(students, exam.id)
        min == MinR(marks)
        max == MaxR(marks)
    IN  IF marks = <<>> THEN Returned(students)
        ELSE IF HasNonFinite(marks) THEN Thrown("NonFiniteInput", students)
        ELSE Returned(WithScaled(students, exam.id,
                 LAMBDA raw : MinMaxValue(raw, min, max, exam.scalingValue)))

\* insertion of a mark into a descending list, before the first smaller one
RECURSIVE InsertDesc(_, _)
InsertDesc(m, sorted) ==
    IF sorted = <<>> THEN <<m>>
    ELSE IF RLt(Head(sorted), m) THEN <<m>> \o sorted
         ELSE <<Head(sorted)>> \o InsertDesc(m, Tail(sorted))

RECURSIVE SortDesc(_)
SortDesc(marks) ==
    IF marks = <<>> THEN <<>> ELSE InsertDesc(Head(marks), SortDesc(Tail(marks)))

\* Array.prototype.indexOf, 0-based (the value is present)
IndexOf(seq, v) == (CHOOSE i \in 1..Len(seq) :
                        seq[i] = v /\ \A j \in 1..(i - 1) : seq[j] # v) - 1

\* (rank / (n - 1)) * scalingValue, rank = first position of the raw mark in the
\* descending order of the cohort's n marks; scalingValue when n = 1
PercentileValue(raw, sorted, scalingValue) ==
    LET n == Len(sorted)
        rank == IndexOf(sorted, raw)
    IN  IF n = 1 THEN RealOf(scalingValue)
        ELSE RealOf(RMul(Rat(rank, n - 1), scalingValue))

applyPercentileScaling(students, exam) ==
    LET marks == RawMarksOf(students, exam.id)
        sorted == SortDesc(marks)
    IN  IF marks = <<>> THEN Returned(students)
        ELSE IF HasNonFinite(marks) THEN Thrown("NonFiniteInput", students)
        ELSE Returned(WithScaled(students, exam.id,
                 LAMBDA raw : PercentileValue(raw, sorted, exam.scalingValue)))

\* k <= |x| + 1/2, for an integer k and a real x
HalfUpReaches(k, x) ==
    LET c == RSub(Rat(2 * k - 1, 2), RatPart(x))
    IN  IF RLeReal(Zero, x) THEN LeSurd(c, x.sg, Radicand(x))
        ELSE \* |x| = -x = -n/d - sg * sqrt(q)
             LeSurd(RSub(Rat(2 * k - 1, 2), RSub(Zero, RatPart(x))), -x.sg, Radicand(x))

\* floor(|x| + 1/2)
RoundAbs(x) ==
    LET hi == Abs(x.n) \div x.d + ISqrt(x.qn \div x.qd) + 2
    IN  CHOOSE k \in 0..hi : HalfUpReaches(k, x) /\ ~HalfUpReaches(k + 1, x)

\* nearest integer, a half going away from zero (upwards for a mark >= 0)
RoundHalfUp(x) == IF RLeReal(Zero, x) THEN RoundAbs(x) ELSE -RoundAbs(x)

applyRounding(students, examId, useScaled) ==
    IF \E i \in 1..Len(students) :
           Has(students[i].scaledMarks, examId) /\ ~IsFinite(students[i].scaledMarks[examId])
    THEN Thrown("NonFiniteInput", students)
    ELSE Returned(Map(students, LAMBDA s :
             IF Has(s.scaledMarks, examId)
             THEN [s EXCEPT !.roundedMarks = Put(@, examId, RoundHalfUp(s.scaledMarks[examId]))]
             ELSE s))

----------------------------------------------------------------------------
(* utils/storage: localStorage session, CSV parsing *)

STORAGE_KEY == "marks-system-data"
LegacyKey == "marksData"

NoItem == [kind |-> "none"]
Garbage == [kind |-> "text"]

\* the text JSON.parse reads as the value
JsonText(value) == [kind |-> "json", value |-> value]

\* JSON.stringify of a number: NaN and Infinity are written as null
JsonNumber(x) == IF IsFinite(x) THEN x ELSE Null

JSONstringify(value) ==
    JsonText([students |-> Map(value.students, LAMBDA s :
                  [s EXCEPT !.marks = [k \in DOMAIN @ |-> JsonNumber(@[k])],
                            !.scaledMarks = [k \in DOMAIN @ |-> JsonNumber(@[k])]]),
              exams |-> value.exams])
JSONparse(item) ==
    IF item.kind = "json" THEN [ok |-> TRUE, value |-> item.value]
    ELSE [ok |-> FALSE, value |-> Null]

setItem(storage, key, item) == [storage EXCEPT ![key] = item]
removeItem(storage, key) == [storage EXCEPT ![key] = NoItem]

saveToLocalStorage(storage, d) == setItem(storage, STORAGE_KEY, JSONstringify(d))

\* the text of the file exportToJSON downloads: the students without their
\* scaledMarks and roundedMarks, the exams as they are
exportToJSON(d) ==
    JSONstringify([students |-> Map(d.students, LAMBDA s :
                       [s EXCEPT !.scaledMarks = EmptyMap, !.roundedMarks = EmptyMap]),
                   exams |-> d.exams])

\* a loader that reads the key handleStartNewSession removes
loadFromLegacyKey(storage) ==
    LET stored == storage[LegacyKey]
    IN  IF stored # NoItem
        THEN IF JSONparse(stored).ok THEN JSONparse(stored).value ELSE Null
        ELSE Null

loadFromLocalStorage(storage) ==
    LET stored == storage[STORAGE_KEY]
    IN  IF stored # NoItem
        THEN IF JSONparse(stored).ok THEN JSONparse(stored).value ELSE Null
        ELSE Null

\* part.trim().replace(/^["']|["']$/g, '') on the parts the inputs use
CleanPart(part) ==
    CASE part = " S1 " -> "S1"
      [] part = "\"Ann\"" -> "Ann"
      [] part = "  " -> ""
      [] OTHER -> part

\* a CSV text is its lines, a line the parts between its commas
RECURSIVE parseCSV(_)
parseCSV(lines) ==
    IF lines = <<>> THEN <<>>
    ELSE LET parts == Map(Head(lines), CleanPart)
             rest == parseCSV(Tail(lines))
         IN  IF Len(parts) >= 2 /\ parts[1] # "" /\ parts[2] # ""
             THEN <<NewStudent(parts[1], parts[2])>> \o rest
             ELSE rest

----------------------------------------------------------------------------
(* What the user can type, paste or pick *)

Cancel == "<cancel>"    \* prompt() returned null

\* Number(text) for the texts the inputs use
NumberOf(text) ==
    CASE text = "" -> Zero
      [] text = "0" -> IntR(0)
      [] text = "1" -> IntR(1)
      [] text = "2" -> IntR(2)
      [] text = "3" -> IntR(3)
      [] text = "-1" -> IntR(-1)
      [] text = "1.5" -> Rat(3, 2)
      [] OTHER -> NaN

isNaN(x) == x.d = 0 /\ x.n = 0
Falsy(text) == text = Cancel \/ text = ""

CsvInputs ==
    { <<>>,
      << <<"S1", "Ann">>, <<"S2", "Bob">> >>,
      << <<"S1", "Ann">>, <<"S1", "Abe">> >>,
      << <<" S1 ", "\"Ann\"">>, <<"">>, <<"S3">>, <<"  ", "Eve">> >> }

NameAnswers == {Cancel, "Quiz"}
TotalMarksAnswers == {Cancel, "abc", "0", "2"}
ScalingValueAnswers == {"", "2"}
MarkInputs == {"", "1", "2"}

\* an exam created in an earlier run of the page (its id is an earlier Date.now())
EarlierExam(id, name, totalMarks, scalingValue) ==
    [id |-> id, name |-> name, totalMarks |-> IntR(totalMarks),
     scalingValue |-> IntR(scalingValue), scalingMethod |-> "bellCurve"]

Marks(m1, m2) == Put(Put(EmptyMap, 1, IntR(m1)), 2, IntR(m2))

\* a session an earlier run of the page has saved
StoredSession ==
    [students |-> << [NewStudent("S1", "Ann") EXCEPT !.marks = Marks(1, 2)],
                     [NewStudent("S2", "Bob") EXCEPT !.marks = Marks(2, 2)] >>,
     exams |-> <<EarlierExam(1, "Midterm", 2, 3), EarlierExam(2, "Final", 2, 2)>>]

\* the files the user can pick: an export, two hand-edited files (a rounded mark
\* without a scaled one; a scaled mark typed in for an exam nobody has a raw
\* mark for; a raw and a scaled mark written as 1e999, which JSON.parse reads as
\* Infinity), a file that is no JSON
JsonFiles ==
    { JSONstringify(StoredSession),
      JSONstringify([students |-> << [NewStudent("S1", "Ann") EXCEPT
                                         !.roundedMarks = Put(EmptyMap, 1, 1)] >>,
                     exams |-> <<EarlierExam(1, "Midterm", 2, 3)>>]),
      JSONstringify([students |-> << [NewStudent("S1", "Ann") EXCEPT
                                         !.scaledMarks = Put(EmptyMap, 1, RealOf(Rat(3, 2)))] >>,
                     exams |-> <<EarlierExam(1, "Midterm", 2, 3)>>]),
      JsonText([students |-> << [NewStudent("S1", "Ann") EXCEPT
                                    !.marks = Put(EmptyMap, 1, Infinity),
                                    !.scaledMarks = Put(EmptyMap, 1, RealOf(Infinity))],
                                 [NewStudent("S2", "Bob") EXCEPT
                                    !.marks = Put(EmptyMap, 1, IntR(1)),
                                    !.scaledMarks = Put(EmptyMap, 1, RealOf(Rat(3, 2)))] >>,
                exams |-> <<EarlierExam(1, "Midterm", 2, 3)>>]),
      Garbage }

----------------------------------------------------------------------------
(* Home component *)

ExamIds(exams) == {exams[i].id : i \in 1..Len(exams)}
StudentIds(students) == {students[i].id : i \in 1..Len(students)}

NoExam == [id |-> -1]

\* a find that takes the first exam of the list whatever the id
FindExamFirst(exams, examId) == IF exams = <<>> THEN NoExam ELSE exams[1]

\* data.exams.find(e => e.id === examId)
FindExam(exams, examId) ==
    IF \E i \in 1..Len(exams) : exams[i].id = examId
    THEN exams[CHOOSE i \in 1..Len(exams) :
                   exams[i].id = examId /\ \A j \in 1..(i - 1) : exams[j].id # examId]
    ELSE NoExam

\* the save effect: runs after every setData
SaveEffect(storage, d) ==
    IF Len(d.students) > 0 \/ Len(d.exams) > 0
    THEN saveToLocalStorage(storage, d)
    ELSE storage

\* outcome: "done", "ignored" (the handler returned early) or the error thrown
Called(op, examId, method, outcome) ==
    [op |-> op, examId |-> examId, method |-> method, outcome |-> outcome]

\* the switch without its percentile case: that method falls to the default
ScaledStudentsNoPercentile(students, exam, method) ==
    CASE method = "bellCurve" -> applyBellCurveScaling(students, exam)
      [] method = "linearNormalization" -> applyLinearNormalization(students, exam)
      [] method = "minMaxNormalization" -> applyMinMaxNormalization(students, exam)
      [] OTHER -> Returned(students)

\* the switch with one case calling the function of another
ScaledStudentsWired(students, exam, method, from, to) ==
    LET m == IF method = from THEN to ELSE method
    IN  CASE m = "bellCurve" -> applyBellCurveScaling(students, exam)
          [] m = "linearNormalization" -> applyLinearNormalization(students, exam)
          [] m = "minMaxNormalization" -> applyMinMaxNormalization(students, exam)
          [] m = "percentile" -> applyPercentileScaling(students, exam)
          [] OTHER -> Returned(students)

ScaledStudentsPercentileAsMinMax(students, exam, method) ==
    ScaledStudentsWired(students, exam, method, "percentile", "minMaxNormalization")
ScaledStudentsMinMaxAsLinear(students, exam, method) ==
    ScaledStudentsWired(students, exam, method, "minMaxNormalization", "linearNormalization")
ScaledStudentsBellAsMinMax(students, exam, method) ==
    ScaledStudentsWired(students, exam, method, "bellCurve", "minMaxNormalization")
ScaledStudentsLinearAsMinMax(students, exam, method) ==
    ScaledStudentsWired(students, exam, method, "linearNormalization", "minMaxNormalization")
ScaledStudentsLinearAsBell(students, exam, method) ==
    ScaledStudentsWired(students, exam, method, "linearNormalization", "bellCurve")
ScaledStudentsPercentileAsLinear(students, exam, method) ==
    ScaledStudentsWired(students, exam, method, "percentile", "linearNormalization")

\* the switch handed the students rebuilt from id, name and raw marks, the way
\* exportToJSON strips them: the result carries neither earlier scaled nor
\* rounded entries
ScaledStudentsRebuilt(students, exam, method) ==
    ScaledStudentsWired(Map(students, LAMBDA s :
                            [s EXCEPT !.scaledMarks = EmptyMap, !.roundedMarks = EmptyMap]),
                        exam, method, method, method)

\* the bell-curve case with its result clamped into [0, scalingValue]
ScaledStudentsBellClamped(students, exam, method) ==
    LET scaled == ScaledStudentsWired(students, exam, method, method, method)
        Clamp(x) == IF ~RLeReal(Zero, x) THEN RealOf(Zero)
                    ELSE IF RLeReal(exam.scalingValue, x) THEN RealOf(exam.scalingValue)
                    ELSE x
    IN  IF method = "bellCurve" /\ scaled.error = "none"
        THEN Returned(Map(scaled.students, LAMBDA st :
                 IF Has(st.marks, exam.id)
                 THEN [st EXCEPT !.scaledMarks[exam.id] = Clamp(@)]
                 ELSE st))
        ELSE scaled

\* the switch that swallows the engine's rejection of a non-finite raw mark and
\* stores the raw marks of the cohort as its scaled marks
ScaledStudentsSwallowingNonFinite(students, exam, method) ==
    LET scaled == ScaledStudentsWired(students, exam, method, method, method)
    IN  IF scaled.error = "NonFiniteInput"
        THEN Returned(Map(students, LAMBDA st :
                 IF Has(st.marks, exam.id) /\ st.marks[exam.id] # Null
                 THEN [st EXCEPT !.scaledMarks = Put(@, exam.id, RealOf(st.marks[exam.id]))]
                 ELSE st))
        ELSE scaled

\* the switch of handleApplyScaling
ScaledStudents(students, exam, method) ==
    CASE method = "bellCurve" -> applyBellCurveScaling(students, exam)
      [] method = "linearNormalization" -> applyLinearNormalization(students, exam)
      [] method = "minMaxNormalization" -> applyMinMaxNormalization(students, exam)
      [] method = "percentile" -> applyPercentileScaling(students, exam)
      [] OTHER -> Returned(students)

\* data.exams.map(e => e.id === examId ? { ...e, scalingMethod: method } : e)
UpdatedExams(exams, examId, method) ==
    Map(exams, LAMBDA e : IF e.id = examId THEN [e EXCEPT !.scalingMethod = method] ELSE e)

\* the rounding of Math.round: a half goes towards plus infinity, so that a
\* negative half goes towards zero (-0.5 gives 0)
RoundedStudentsMathRound(students, examId) ==
    IF applyRounding(students, examId, TRUE).error # "none"
    THEN applyRounding(students, examId, TRUE)
    ELSE Returned(Map(students, LAMBDA s :
             IF Has(s.scaledMarks, examId)
             THEN LET x == s.scaledMarks[examId]
                      r == RoundHalfUp(x)
                  IN  [s EXCEPT !.roundedMarks = Put(@, examId,
                          IF ~RLeReal(Zero, x) /\ x.sg = 0 /\ x.d = 2 THEN r + 1 ELSE r)]
             ELSE s))

\* the rounding result dropped: the students of the closure are stored again
RoundedStudentsStale(students, examId) == Returned(students)

\* applyRounding(data.students, examId, true)
RoundedStudents(students, examId) == applyRounding(students, examId, TRUE)

\* a mark form that also drops the edited student's scaled and rounded mark of
\* the exam
UpdatedStudentsInvalidating(students, studentId, examId, mark) ==
    Map(students, LAMBDA s :
        IF s.id = studentId
        THEN [s EXCEPT !.marks = Put(@, examId, mark),
                       !.scaledMarks = [b \in (DOMAIN @) \ {examId} |-> @[b]],
                       !.roundedMarks = [b \in (DOMAIN @) \ {examId} |-> @[b]]]
        ELSE s)

\* data.students.map(s => s.id === selectedStudent.id ? { ...s, marks: ... } : s)
UpdatedStudents(students, studentId, examId, mark) ==
    Map(students, LAMBDA s :
        IF s.id = studentId THEN [s EXCEPT !.marks = Put(@, examId, mark)] ELSE s)

\* one more handler call, within the explored number of calls; the calls are
\* not counted where the reachable states are finitely many without a limit
Unlimited == 0 - 1
Step == IF ops = Unlimited THEN ops' = ops ELSE ops < MaxOps /\ ops' = ops + 1

Mount ==
    /\ ~mounted
    /\ mounted' = TRUE
    /\ LET stored == loadFromLocalStorage(localStorage)
       IN  IF stored # Null /\ (Len(stored.students) > 0 \/ Len(stored.exams) > 0)
           THEN lastSessionData' = stored /\ showSessionModal' = TRUE
           ELSE UNCHANGED <<lastSessionData, showSessionModal>>
    /\ last' = Called("mount", 0, "", "done")
    /\ UNCHANGED <<data, localStorage, clock, ops>>

\* the page is loaded again: the component state starts over, localStorage stays
Reload ==
    /\ mounted
    /\ mounted' = FALSE
    /\ data' = EmptyData
    /\ showSessionModal' = FALSE
    /\ lastSessionData' = Null
    /\ last' = Called("reload", 0, "", "done")
    /\ UNCHANGED <<localStorage, clock, ops>>

handleResumeSession ==
    /\ mounted /\ showSessionModal
    /\ Step
    /\ data' = IF lastSessionData # Null THEN lastSessionData ELSE data
    /\ localStorage' = IF lastSessionData # Null
                       THEN SaveEffect(localStorage, data') ELSE localStorage
    /\ showSessionModal' = FALSE
    /\ last' = Called("resume", 0, "", "done")
    /\ UNCHANGED <<lastSessionData, mounted, clock>>

handleStartNewSession ==
    /\ mounted /\ showSessionModal
    /\ Step
    /\ data' = EmptyData
    /\ localStorage' = SaveEffect(removeItem(localStorage, LegacyKey), data')
    /\ showSessionModal' = FALSE
    /\ last' = Called("newSession", 0, "", "done")
    /\ UNCHANGED <<lastSessionData, mounted, clock>>

\* the page behind the session prompt's overlay takes no clicks
Usable == mounted /\ ~showSessionModal /\ Step

\* an import that appends the parsed students to the roster
ImportedDataAppending(prev, students) == [prev EXCEPT !.students = @ \o students]

\* prev => ({ ...prev, students })
ImportedData(prev, students) == [prev EXCEPT !.students = students]

handleImportCSV ==
    /\ Usable
    /\ \E csvInput \in CsvInputs :
         LET students == parseCSV(csvInput)
         IN  IF Len(students) = 0
             THEN /\ last' = Called("importCSV", 0, "", "ignored")
                  /\ UNCHANGED <<data, localStorage>>
             ELSE /\ data' = ImportedData(data, students)
                  /\ localStorage' = SaveEffect(localStorage, data')
                  /\ last' = Called("importCSV", 0, "", "done")
    /\ UNCHANGED <<showSessionModal, lastSessionData, mounted, clock>>

handleAddExam ==
    /\ Usable
    /\ clock < Len(StoredSession.exams) + MaxExams
    /\ \E examName \in NameAnswers, totalMarks \in TotalMarksAnswers,
          scalingValue \in ScalingValueAnswers :
         IF \/ Falsy(examName)
            \/ Falsy(totalMarks) \/ isNaN(NumberOf(totalMarks))
            \/ Falsy(scalingValue) \/ isNaN(NumberOf(scalingValue))
         THEN /\ last' = Called("addExam", 0, "", "ignored")
              /\ UNCHANGED <<data, localStorage, clock>>
         ELSE LET newExam == [id |-> clock + 1,
                              name |-> examName,
                              totalMarks |-> NumberOf(totalMarks),
                              scalingValue |-> NumberOf(scalingValue),
                              scalingMethod |-> "bellCurve"]
              IN  /\ data' = [data EXCEPT !.exams = Append(@, newExam)]
                  /\ localStorage' = SaveEffect(localStorage, data')
                  /\ clock' = clock + 1
                  /\ last' = Called("addExam", newExam.id, "", "done")
    /\ UNCHANGED <<showSessionModal, lastSessionData, mounted>>

handleApplyScaling ==
    /\ Usable
    /\ \E examId \in ExamIds(data.exams), method \in Methods :
         LET exam == FindExam(data.exams, examId)
             scaled == ScaledStudents(data.students, exam, method)
         IN  IF exam = NoExam \/ scaled.error # "none"
             THEN /\ last' = Called("applyScaling", examId, method,
                                     IF exam = NoExam THEN "ignored" ELSE scaled.error)
                  /\ UNCHANGED <<data, localStorage>>
             ELSE /\ data' = [students |-> scaled.students,
                              exams |-> UpdatedExams(data.exams, examId, method)]
                  /\ localStorage' = SaveEffect(localStorage, data')
                  /\ last' = Called("applyScaling", examId, method, "done")
    /\ UNCHANGED <<showSessionModal, lastSessionData, mounted, clock>>

handleApplyRounding ==
    /\ Usable
    /\ \E examId \in ExamIds(data.exams) :
         LET exam == FindExam(data.exams, examId)
             rounded == RoundedStudents(data.students, examId)
         IN  IF exam = NoExam \/ rounded.error # "none"
             THEN /\ last' = Called("applyRounding", examId, "",
                                     IF exam = NoExam THEN "ignored" ELSE rounded.error)
                  /\ UNCHANGED <<data, localStorage>>
             ELSE /\ data' = [data EXCEPT !.students = rounded.students]
                  /\ localStorage' = SaveEffect(localStorage, data')
                  /\ last' = Called("applyRounding", examId, "", "done")
    /\ UNCHANGED <<showSessionModal, lastSessionData, mounted, clock>>

handleAddMark ==
    /\ Usable
    /\ \E selectedStudent \in StudentIds(data.students) \cup {""},
          selectedExam \in ExamIds(data.exams) \cup {-1},
          markInput \in MarkInputs :
         LET mark == NumberOf(markInput)
         IN  IF selectedStudent = "" \/ selectedExam = -1 \/ Falsy(markInput) \/ isNaN(mark)
             THEN /\ last' = Called("addMark", selectedExam, selectedStudent, "ignored")
                  /\ UNCHANGED <<data, localStorage>>
             ELSE /\ data' = [data EXCEPT !.students =
                                UpdatedStudents(@, selectedStudent, selectedExam, mark)]
                  /\ localStorage' = SaveEffect(localStorage, data')
                  /\ last' = Called("addMark", selectedExam, selectedStudent, "done")
    /\ UNCHANGED <<showSessionModal, lastSessionData, mounted, clock>>

\* importFromJSON resolves with JSON.parse of the file text or rejects;
\* the handler continues after the await.  The file is one of the user's files
\* or the one Export JSON has just downloaded (the call then records "exported")
handleImportJSON ==
    /\ Usable
    /\ \E file \in JsonFiles \cup {exportToJSON(data)} :
         LET from == IF file = exportToJSON(data) THEN "exported" ELSE "picked"
         IN  IF JSONparse(file).ok
             THEN /\ data' = JSONparse(file).value
                  /\ localStorage' = SaveEffect(localStorage, data')
                  /\ last' = Called("importJSON", 0, from, "done")
             ELSE /\ last' = Called("importJSON", 0, from, "ignored")
                  /\ UNCHANGED <<data, localStorage>>
    /\ UNCHANGED <<showSessionModal, lastSessionData, mounted, clock>>

----------------------------------------------------------------------------
(* The page, from its first load *)

\* what the store can hold when the page is first loaded: nothing, a text that
\* is no JSON, a data set without students and exams (the page itself never
\* writes one), a saved session
InitialItems == {NoItem, Garbage, JSONstringify(EmptyData), JSONstringify(StoredSession)}

Init ==
    /\ data = EmptyData
    /\ \E item \in InitialItems :
         localStorage = [key \in {STORAGE_KEY, LegacyKey} |->
                            IF key = STORAGE_KEY THEN item ELSE NoItem]
    /\ showSessionModal = FALSE
    /\ lastSessionData = Null
    /\ mounted = FALSE
    /\ clock = Len(StoredSession.exams)
    /\ ops = 0
    /\ last = Called("init", 0, "", "done")

Next ==
    \/ Mount
    \/ Reload
    \/ handleResumeSession
    \/ handleStartNewSession
    \/ handleImportCSV
    \/ handleAddExam
    \/ handleApplyScaling
    \/ handleApplyRounding
    \/ handleAddMark
    \/ handleImportJSON

Spec == Init /\ [][Next]_vars

----------------------------------------------------------------------------
(* The scaling engine and the rounder on a roster drawn from bounded sets:    *)
(* the page holds one exam and up to MaxStudents students, each with or       *)
(* without a raw mark, and the user applies scaling methods and rounding.     *)

Absent == [absent |-> TRUE]
RawMarks == {IntR(k) : k \in (-1)..MaxMark}
RosterIds == <<"S1", "S2", "S3", "S4", "S5">>
RosterNames == <<"Ann", "Bob", "Cid", "Dee", "Eve">>
EngineTotalMarks == {0, 2}
EngineScalingValues == {1, 3}

Roster(marks) ==
    [i \in DOMAIN marks |->
        [NewStudent(RosterIds[i], RosterNames[i]) EXCEPT
            !.marks = IF marks[i] = Absent THEN EmptyMap ELSE Put(EmptyMap, 1, marks[i])]]

InitEngine ==
    /\ \E n \in 1..MaxStudents :
         \E marks \in [1..n -> RawMarks \cup {Absent}] :
           \E totalMarks \in EngineTotalMarks, scalingValue \in EngineScalingValues :
             data = [students |-> Roster(marks),
                     exams |-> <<EarlierExam(1, "Midterm", totalMarks, scalingValue)>>]
    /\ localStorage = SaveEffect([key \in {STORAGE_KEY, LegacyKey} |-> NoItem], data)
    /\ showSessionModal = FALSE
    /\ lastSessionData = Null
    /\ mounted = TRUE
    /\ clock = Len(StoredSession.exams)
    /\ ops = Unlimited
    /\ last = Called("init", 0, "", "done")

NextEngine ==
    \/ handleApplyScaling
    \/ handleApplyRounding

SpecEngine == InitEngine /\ [][NextEngine]_vars

----------------------------------------------------------------------------
(* The scaling engine and the rounder on a class with outlying marks: up to   *)
(* MaxCohort students of one exam, most of them holding the same raw mark     *)
(* and the others a mark one higher or one lower.                             *)

\* a class of n students, the first k of them holding the other mark
ClassRoster(n, k, common, other) ==
    [i \in 1..n |->
        [NewStudent("S" \o ToString(i), "Student " \o ToString(i)) EXCEPT
            !.marks = Put(EmptyMap, 1, IF i <= k THEN other ELSE common)]]

InitCohort ==
    /\ \E n \in 1..MaxCohort : \E k \in 0..2 : \E other \in {-1, 1} :
         \E scalingValue \in EngineScalingValues :
           /\ k <= n
           /\ data = [students |-> ClassRoster(n, k, IntR(0), IntR(other)),
                      exams |-> <<EarlierExam(1, "Midterm", 2, scalingValue)>>]
    /\ localStorage = SaveEffect([key \in {STORAGE_KEY, LegacyKey} |-> NoItem], data)
    /\ showSessionModal = FALSE
    /\ lastSessionData = Null
    /\ mounted = TRUE
    /\ clock = Len(StoredSession.exams)
    /\ ops = Unlimited
    /\ last = Called("init", 0, "", "done")

SpecCohort == InitCohort /\ [][NextEngine]_vars

----------------------------------------------------------------------------
(* Properties *)

Cohort(students, examId) == {i \in 1..Len(students) : Has(students[i].marks, examId)}
Raw(i) == data.students[i].marks[last.examId]
Scaled(i) == data.students[i].scaledMarks[last.examId]
LastExam == FindExam(data.exams, last.examId)
LastCohort == Cohort(data.students, last.examId)
Applied(method) ==
    last.op = "applyScaling" /\ last.method = method /\ last.outcome = "done"
Rounded == last.op = "applyRounding" /\ last.outcome = "done"

\* C1: a scaling call that returns gives scaledMarks[exam.id] to every student
\* holding a raw mark for the exam and returns every other student unchanged,
\* so that no scaledMarks[exam.id] entry is created for them.
C1_ApplyScalesTheCohort ==
    [][(last'.op = "applyScaling" /\ last'.outcome = "done") =>
         /\ Len(data'.students) = Len(data.students)
         /\ \A i \in 1..Len(data.students) :
              IF Has(data.students[i].marks, last'.examId)
              THEN Has(data'.students[i].scaledMarks, last'.examId)
              ELSE data'.students[i] = data.students[i]]_vars

C1_Witness ==
    /\ last.op = "applyScaling" /\ last.outcome = "done"
    /\ \E i \in LastCohort : Has(data.students[i].scaledMarks, last.examId)
    /\ \E i \in 1..Len(data.students) :
         i \notin LastCohort /\ ~Has(data.students[i].scaledMarks, last.examId)

\* the entries of a student's map m2 under every key but examId are those of m1
SameButFor(m1, m2, examId) ==
    /\ (DOMAIN m1) \ {examId} = (DOMAIN m2) \ {examId}
    /\ \A b \in (DOMAIN m1) \ {examId} : m2[b] = m1[b]

\* C2: a scaling call for exam A leaves every student's scaledMarks and
\* roundedMarks entries under every other exam B as they were.
C2_OtherExamsUntouched ==
    [][last'.op = "applyScaling" =>
         /\ Len(data'.students) = Len(data.students)
         /\ \A i \in 1..Len(data.students) :
              /\ SameButFor(data.students[i].scaledMarks,
                            data'.students[i].scaledMarks, last'.examId)
              /\ SameButFor(data.students[i].roundedMarks,
                            data'.students[i].roundedMarks, last'.examId)]_vars

C2_Witness ==
    /\ last.op = "applyScaling" /\ last.outcome = "done"
    /\ \E i \in LastCohort : \E b \in ExamIds(data.exams) \ {last.examId} :
         /\ Has(data.students[i].scaledMarks, last.examId)
         /\ Has(data.students[i].scaledMarks, b)
         /\ Has(data.students[i].roundedMarks, b)

\* C3: in every reachable state a student has a roundedMarks entry for an exam
\* only if the student has a scaledMarks entry for that exam.
C3_RoundedOnlyIfScaled ==
    \A i \in 1..Len(data.students) :
        DOMAIN data.students[i].roundedMarks \subseteq DOMAIN data.students[i].scaledMarks

\* x <= c, for a real x and a rational c
RealNeg(x) == [x EXCEPT !.n = -@, !.sg = -@]
RealLe(x, c) == RLeReal(RSub(Zero, c), RealNeg(x))

\* r is the integer nearest to x, a half going upwards for x >= 0 (12.5 gives 13)
\* and away from zero for x < 0
IsHalfUpOf(r, x) ==
    IF RLeReal(Zero, x)
    THEN RLeReal(Rat(2 * r - 1, 2), x) /\ ~RLeReal(Rat(2 * r + 1, 2), x)
    ELSE RealLe(x, Rat(2 * r + 1, 2)) /\ ~RealLe(x, Rat(2 * r - 1, 2))

C4_Examples ==
    /\ RoundHalfUp(RealOf(Rat(124, 10))) = 12
    /\ RoundHalfUp(RealOf(Rat(125, 10))) = 13
    /\ RoundHalfUp(RealOf(Rat(126, 10))) = 13
    /\ RoundHalfUp(RealOf(IntR(12))) = 12

\* C4: a rounding call sets roundedMarks[examId] to the half-up rounding of
\* scaledMarks[examId] for every student holding a scaled mark for the exam
\* (12.4 gives 12, 12.5 gives 13, 12.6 gives 13, an integer itself) and leaves
\* every other student unchanged, with no rounded entry created.
C4_RoundIsHalfUpOfScaled ==
    [][(last'.op = "applyRounding" /\ last'.outcome = "done") =>
         /\ C4_Examples
         /\ Len(data'.students) = Len(data.students)
         /\ \A i \in 1..Len(data.students) :
              IF Has(data.students[i].scaledMarks, last'.examId)
              THEN /\ Has(data'.students[i].roundedMarks, last'.examId)
                   /\ IsHalfUpOf(data'.students[i].roundedMarks[last'.examId],
                                 data.students[i].scaledMarks[last'.examId])
                   /\ data'.students[i].scaledMarks = data.students[i].scaledMarks
              ELSE data'.students[i] = data.students[i]]_vars

C4_Witness ==
    /\ Rounded
    /\ \E i \in 1..Len(data.students) :
         /\ Has(data.students[i].scaledMarks, last.examId)
         /\ Scaled(i) = RealOf(Rat(3, 2))
         /\ data.students[i].roundedMarks[last.examId] = 2
    /\ \E i \in 1..Len(data.students) :
         /\ ~Has(data.students[i].scaledMarks, last.examId)
         /\ ~Has(data.students[i].roundedMarks, last.examId)

\* the raw marks of the cohort of the last call
LastMarks == RawMarksOf(data.students, last.examId)
HoldsHighest(i) == \A j \in LastCohort : RLe(Raw(j), Raw(i))
HoldsLowest(i) == \A j \in LastCohort : RLe(Raw(i), Raw(j))
AllEqual == \A i, j \in LastCohort : Raw(i) = Raw(j)

\* C5: after percentile scaling the student with the highest raw mark holds
\* scaled mark scalingValue and the student with the lowest holds 0; a cohort
\* of one student holds scalingValue.
C5_PercentileTopGetsScalingValue ==
    Applied("percentile") =>
        \A i \in LastCohort :
            IF Cardinality(LastCohort) = 1
            THEN Scaled(i) = RealOf(LastExam.scalingValue)
            ELSE /\ HoldsHighest(i) /\ ~AllEqual => Scaled(i) = RealOf(LastExam.scalingValue)
                 /\ HoldsLowest(i) /\ ~AllEqual => Scaled(i) = RealOf(Zero)

\* how many students of the cohort hold a higher raw mark than student i:
\* the position of i's mark when the raw marks are ordered descending
RankOf(i) == Cardinality({j \in LastCohort : RLt(Raw(i), Raw(j))})

C7_MinMaxEndpoints ==
    Applied("minMaxNormalization") =>
        \A i \in LastCohort :
            IF AllEqual
            THEN Scaled(i) = RealOf(LastExam.scalingValue)
            ELSE /\ HoldsLowest(i) => Scaled(i) = RealOf(Zero)
                 /\ HoldsHighest(i) => Scaled(i) = RealOf(LastExam.scalingValue)

C7_Witness ==
    /\ Applied("minMaxNormalization")
    /\ ~AllEqual
    /\ \E i, j, k \in LastCohort :
         /\ i # j /\ HoldsLowest(i) /\ HoldsLowest(j) /\ HoldsHighest(k)
         /\ Scaled(i) = RealOf(Zero) /\ Scaled(j) = RealOf(Zero)
         /\ Scaled(k) = RealOf(LastExam.scalingValue)

\* C8: after bell-curve scaling of a cohort whose raw marks are all equal
\* (standard deviation 0), a cohort of one student included, every member's
\* scaled mark is scalingValue / 2.
C8_BellCurveOfEqualMarks ==
    (Applied("bellCurve") /\ AllEqual) =>
        \A i \in LastCohort : Scaled(i) = RealOf(RDiv(LastExam.scalingValue, IntR(2)))

C8_Witness ==
    /\ Applied("bellCurve")
    /\ AllEqual
    /\ Cardinality(LastCohort) >= 2
    /\ \A i \in LastCohort : Scaled(i) = RealOf(RDiv(LastExam.scalingValue, IntR(2)))

C10_LinearOfZeroTotalFails ==
    [][(/\ last'.op = "applyScaling"
        /\ last'.method = "linearNormalization"
        /\ FindExam(data.exams, last'.examId).totalMarks = Zero) =>
         /\ last'.outcome = "ConfigurationError"
         /\ data'.students = data.students]_vars

C10_Witness ==
    /\ last.op = "applyScaling" /\ last.method = "linearNormalization"
    /\ last.outcome = "ConfigurationError"
    /\ LastExam.totalMarks = Zero
    /\ last.examId > Len(StoredSession.exams)
    /\ LastCohort # {}

\* the orders of the cohort of the last call in which the raw marks descend
DescendingOrders ==
    {order \in [1..Cardinality(LastCohort) -> LastCohort] :
        /\ \A a, b \in DOMAIN order : a # b => order[a] # order[b]
        /\ \A a, b \in DOMAIN order : a < b => RLe(Raw(order[b]), Raw(order[a]))}

\* the 0-based position of the first student of the order holding the raw mark
FirstPosition(order, mark) ==
    (CHOOSE a \in DOMAIN order :
        Raw(order[a]) = mark /\ \A b \in 1..(a - 1) : Raw(order[b]) # mark) - 1

\* C11: after percentile scaling of a cohort of n > 1 students, students with
\* equal raw marks hold the same scaled mark, and it is the one of their common
\* rank: the 0-based position of the first occurrence of the raw mark in the
\* descending order of the cohort's raw marks (whichever way the order places
\* the tied students among themselves).
C11_PercentileTiesShareFirstRank ==
    (Applied("percentile") /\ Cardinality(LastCohort) > 1) =>
        /\ \A i, j \in LastCohort : Raw(i) = Raw(j) => Scaled(i) = Scaled(j)
        /\ \A order \in DescendingOrders : \A i \in LastCohort :
              Scaled(i) = RealOf(RMul(Rat(FirstPosition(order, Raw(i)),
                                          Cardinality(LastCohort) - 1),
                                      LastExam.scalingValue))

\* two students tied below a third: both hold rank 1 of 0..2, not 1.5 and not 2
C11_Witness ==
    /\ Applied("percentile")
    /\ Cardinality(LastCohort) = 3
    /\ Cardinality(DescendingOrders) = 2
    /\ \E i, j, k \in LastCohort :
         /\ i # j /\ Raw(i) = Raw(j) /\ RLt(Raw(i), Raw(k))
         /\ Scaled(k) = RealOf(Zero)
         /\ Scaled(i) = RealOf(RDiv(LastExam.scalingValue, IntR(2)))
         /\ Scaled(j) = Scaled(i)

\* C12: a scaling call for an exam no student holds a raw mark for returns,
\* whichever of the four methods is applied, and the roster after the call is
\* the roster before it.
C12_EmptyCohortIsNoOp ==
    [][(last'.op = "applyScaling" /\ Cohort(data.students, last'.examId) = {}) =>
         /\ last'.outcome = "done"
         /\ data'.students = data.students]_vars

\* a roster that differs from the given one only in roundedMarks, on every
\* student: one holding a rounded mark for the exam has none, one holding
\* none has 7
RoundedVariants(students, examId) ==
    { Map(students, LAMBDA s :
          [s EXCEPT !.roundedMarks =
              IF Has(@, examId) THEN EmptyMap ELSE Put(@, examId, 7)]) }

ScaledMarksOf(students) == [i \in 1..Len(students) |-> students[i].scaledMarks]
RoundedMarksOf(students) == [i \in 1..Len(students) |-> students[i].roundedMarks]

\* C13: a scaling call neither writes nor reads roundedMarks: every student's
\* roundedMarks, the entry of the target exam included, is after the call what
\* it was before, and the scaledMarks the call produces are the ones it produces
\* for a roster that differs only in roundedMarks.
C13_ApplyIgnoresRoundedMarks ==
    [][last'.op = "applyScaling" =>
         /\ RoundedMarksOf(data'.students) = RoundedMarksOf(data.students)
         /\ last'.outcome = "done" =>
              \A variant \in RoundedVariants(data.students, last'.examId) :
                  ScaledStudents(variant, FindExam(data.exams, last'.examId), last'.method)
                      = Returned([i \in 1..Len(variant) |->
                                     [data'.students[i] EXCEPT
                                         !.roundedMarks = variant[i].roundedMarks]])]_vars

\* a method applied after a rounding: the rounded mark of the target exam is
\* still the rounding of the earlier scaled mark
C13_Witness ==
    /\ last.op = "applyScaling" /\ last.outcome = "done"
    /\ \E i \in LastCohort :
         /\ Has(data.students[i].roundedMarks, last.examId)
         /\ ~IsHalfUpOf(data.students[i].roundedMarks[last.examId], Scaled(i))

\* an exam whose scalingMethod field is absent (getScalingMethodName: 'Not Applied')
Unset == "undefined"

\* C14: a scaling call that returns sets the scalingMethod of its exam to the
\* method applied and changes no other field of any exam; no other operation
\* changes the scalingMethod of an exam it keeps; and an exam just created
\* through the add-exam prompts, to which no method has been applied, has its
\* scalingMethod unset.  So scalingMethod names the method most recently applied.
C14_ScalingMethodNamesLastApplied ==
    [][IF last'.op = "applyScaling" /\ last'.outcome = "done"
       THEN data'.exams =
                [i \in 1..Len(data.exams) |->
                    IF data.exams[i].id = last'.examId
                    THEN [data.exams[i] EXCEPT !.scalingMethod = last'.method]
                    ELSE data.exams[i]]
       ELSE /\ \A i \in 1..Len(data.exams), j \in 1..Len(data'.exams) :
                 data'.exams[j].id = data.exams[i].id =>
                     data'.exams[j].scalingMethod = data.exams[i].scalingMethod
            /\ (last'.op = "addExam" /\ last'.outcome = "done") =>
                 FindExam(data'.exams, last'.examId).scalingMethod = Unset]_vars

\* the persisted store holds a session: what the mount effect tests before it
\* shows the session prompt
SessionStored(storage) ==
    LET stored == loadFromLocalStorage(storage)
    IN  stored # Null /\ (Len(stored.students) > 0 \/ Len(stored.exams) > 0)

\* C15: after Start New Session the persisted store holds no session; a reload
\* right after it finds the store as empty, and the mount that follows a reload
\* with no session in the store shows no session prompt.
C15_NewSessionDeletesTheStore ==
    [][/\ last'.op = "newSession" => ~SessionStored(localStorage')
       /\ (last.op = "newSession" /\ last'.op = "reload") => ~SessionStored(localStorage')
       /\ (last.op = "reload" /\ last'.op = "mount" /\ ~SessionStored(localStorage)) =>
            ~showSessionModal']_vars

\* the (student, exam) pairs holding a scaled mark in a data set
ScaledEntries(d) ==
    IF d = Null THEN {}
    ELSE UNION {{<<d.students[i].id, e>> : e \in DOMAIN d.students[i].scaledMarks} :
                   i \in 1..Len(d.students)}

\* the scaled marks the program holds: on the page, in the persisted store and
\* in the session loaded for the session prompt
KnownScaledEntries(d, storage, session) ==
    ScaledEntries(d) \cup ScaledEntries(loadFromLocalStorage(storage))
                     \cup ScaledEntries(session)

\* C16: a scaledMarks entry for an exam comes into existence only by a scaling
\* call for that exam made while at least one student holds a raw mark for it:
\* every other step of the application leaves the program with no scaled entry
\* it did not hold before (the first load holds none).
C16_ScaledOnlyAfterEngineRan ==
    [][KnownScaledEntries(data', localStorage', lastSessionData') \subseteq
           KnownScaledEntries(data, localStorage, lastSessionData) \cup
           (IF /\ last'.op = "applyScaling" /\ last'.outcome = "done"
               /\ Cohort(data.students, last'.examId) # {}
            THEN {<<id, last'.examId>> : id \in StudentIds(data.students)}
            ELSE {})]_vars

\* the deviation of student i's raw mark from the mean of the cohort of the
\* last call, and the variance (the standard deviation squared) of the cohort
Deviation(i) == RSub(Raw(i), Mean(LastMarks))
LastVariance == Variance(LastMarks)

\* x is c + d / stddev, for a real x and rationals c and d
IsOffsetByDeviations(x, c, d) ==
    IF x.sg = 0
    THEN /\ RSign(RSub(RatPart(x), c)) = RSign(d)
         /\ RMul(RMul(RSub(RatPart(x), c), RSub(RatPart(x), c)), LastVariance) = RMul(d, d)
    ELSE /\ RatPart(x) = c
         /\ x.sg = RSign(d)
         /\ RMul(Radicand(x), LastVariance) = RMul(d, d)

\* the raw mark of student i lies more than 3 standard deviations from the mean
Outlier(i) == RLt(RMul(IntR(9), LastVariance), RMul(Deviation(i), Deviation(i)))

\* C17: after bell-curve scaling of a cohort whose raw marks differ, each scaled
\* mark is scalingValue/2 + z * scalingValue/6 with z = (raw - mean)/stddev,
\* and it is not clamped: a raw mark more than 3 standard deviations above the
\* mean holds a scaled mark above scalingValue, one more than 3 below holds a
\* scaled mark below 0.
C17_BellCurveIsNotClamped ==
    (Applied("bellCurve") /\ ~AllEqual) =>
        \A i \in LastCohort :
            /\ IsOffsetByDeviations(Scaled(i), RDiv(LastExam.scalingValue, IntR(2)),
                    RMul(Deviation(i), RDiv(LastExam.scalingValue, IntR(6))))
            /\ (Outlier(i) /\ Deviation(i).n > 0) => ~RealLe(Scaled(i), LastExam.scalingValue)
            /\ (Outlier(i) /\ Deviation(i).n < 0) => ~RLeReal(Zero, Scaled(i))

C17_Witness ==
    /\ Applied("bellCurve")
    /\ \E i \in LastCohort :
         /\ Outlier(i) /\ Deviation(i).n > 0
         /\ ~RealLe(Scaled(i), LastExam.scalingValue)

\* x is negative and lies exactly halfway between two integers
IsNegativeHalf(x) == x.sg = 0 /\ x.d = 2 /\ x.n < 0

\* C18: a rounding call rounds a negative scaled mark lying exactly halfway
\* between two integers away from zero: -0.5 gives -1 (and -1.5 gives -2).
C18_NegativeHalfRoundsAwayFromZero ==
    Rounded =>
        \A i \in 1..Len(data.students) :
            (Has(data.students[i].scaledMarks, last.examId) /\ IsNegativeHalf(Scaled(i))) =>
                /\ Has(data.students[i].roundedMarks, last.examId)
                /\ 2 * data.students[i].roundedMarks[last.examId] = Scaled(i).n - 1
                /\ Scaled(i) = RealOf(Rat(-1, 2)) =>
                       data.students[i].roundedMarks[last.examId] = -1

C18_Witness ==
    /\ Rounded
    /\ \E i \in 1..Len(data.students) :
         /\ Has(data.students[i].scaledMarks, last.examId)
         /\ Scaled(i) = RealOf(Rat(-1, 2))
         /\ data.students[i].roundedMarks[last.examId] = -1

\* the errors the engine and the rounder reject a call with
Rejections == {"ConfigurationError", "NonFiniteInput"}

\* the keys under which a map of marks holds a value that is no finite number
NonFiniteKeys(m) == {k \in DOMAIN m : ~IsFinite(m[k])}

\* some student holds a non-finite raw (scaled) mark for the exam
NonFiniteRaw(students, examId) ==
    \E i \in 1..Len(students) :
        Has(students[i].marks, examId) /\ ~IsFinite(students[i].marks[examId])
NonFiniteScaled(students, examId) ==
    \E i \in 1..Len(students) :
        Has(students[i].scaledMarks, examId) /\ ~IsFinite(students[i].scaledMarks[examId])

\* C19: a scaling call for an exam some student holds a NaN or infinite raw mark
\* for, and a rounding call for an exam some student holds a NaN or infinite
\* scaled mark for, is rejected and changes no student's scaled or rounded
\* marks; and no scaling or rounding call puts a non-finite value into a
\* student's scaledMarks or roundedMarks.
C19_NonFiniteMarkIsRejected ==
    [][last'.op \in {"applyScaling", "applyRounding"} =>
         /\ ( \/ last'.op = "applyScaling" /\ NonFiniteRaw(data.students, last'.examId)
              \/ last'.op = "applyRounding" /\ NonFiniteScaled(data.students, last'.examId) ) =>
                /\ last'.outcome \in Rejections
                /\ ScaledMarksOf(data'.students) = ScaledMarksOf(data.students)
                /\ RoundedMarksOf(data'.students) = RoundedMarksOf(data.students)
         /\ Len(data'.students) = Len(data.students)
         /\ \A i \in 1..Len(data.students) :
              /\ NonFiniteKeys(data'.students[i].scaledMarks)
                     \subseteq NonFiniteKeys(data.students[i].scaledMarks)
              /\ \A k \in DOMAIN data'.students[i].roundedMarks :
                     \/ data'.students[i].roundedMarks[k] \in Int
                     \/ /\ Has(data.students[i].roundedMarks, k)
                        /\ data.students[i].roundedMarks[k] = data'.students[i].roundedMarks[k]]_vars

\* a scaling call rejected for one student's infinite raw mark, the other
\* student of the cohort keeping the finite scaled mark held before
C19_Witness ==
    /\ last.op = "applyScaling" /\ last.outcome = "NonFiniteInput"
    /\ \E i, j \in LastCohort :
         /\ Raw(i) = Infinity
         /\ IsFinite(Raw(j))
         /\ Has(data.students[j].scaledMarks, last.examId)
         /\ Scaled(j) = RealOf(Rat(3, 2))

\* C20: importing the file Export JSON has just downloaded yields the same exams
\* and the same students by id, name and raw marks, none of them holding a
\* scaled or a rounded mark.
C20_ExportImportRoundTrip ==
    [][(last'.op = "importJSON" /\ last'.method = "exported") =>
         /\ last'.outcome = "done"
         /\ data'.exams = data.exams
         /\ Len(data'.students) = Len(data.students)
         /\ \A i \in 1..Len(data.students) :
              /\ data'.students[i].id = data.students[i].id
              /\ data'.students[i].name = data.students[i].name
              /\ data'.students[i].marks = data.students[i].marks
              /\ data'.students[i].scaledMarks = EmptyMap
              /\ data'.students[i].roundedMarks = EmptyMap]_vars

\* the data set holds at least one student or one exam
HoldsData(d) == Len(d.students) > 0 \/ Len(d.exams) > 0

\* C21: after every change of the data that leaves at least one student or one
\* exam, the persisted store holds exactly the current data (loading it gives
\* the data of the page); a step that leaves the data with no student and no
\* exam writes nothing, so the stored item is the one held before.
C21_StoreHoldsTheCurrentData ==
    [][/\ (data' # data /\ HoldsData(data')) => loadFromLocalStorage(localStorage') = data'
       /\ ~HoldsData(data') => localStorage'[STORAGE_KEY] = localStorage[STORAGE_KEY]]_vars

\* the marks a submitted mark form can hold
TypedMarks == {NumberOf(markInput) : markInput \in {m \in MarkInputs : ~Falsy(m)}} \ {NaN}

C23_ImportCSVReplacesTheRoster ==
    [][last'.op = "importCSV" =>
         \E csvInput \in CsvInputs :
            LET students == parseCSV(csvInput)
            IN  IF Len(students) = 0
                THEN last'.outcome = "ignored" /\ data' = data
                ELSE /\ last'.outcome = "done"
                     /\ data'.students = students
                     /\ data'.exams = data.exams
                     /\ \A i \in 1..Len(data'.students) :
                           /\ data'.students[i].id # ""
                           /\ data'.students[i].name # ""
                           /\ data'.students[i].marks = EmptyMap
                           /\ data'.students[i].scaledMarks = EmptyMap
                           /\ data'.students[i].roundedMarks = EmptyMap]_vars

\* a roster was imported into the resumed session, whose two exams are kept and
\* whose students, who held marks, are replaced by students without marks
C23_Witness ==
    /\ last.op = "importCSV"
    /\ last.outcome = "done"
    /\ data.exams = StoredSession.exams
    /\ Len(data.students) > 0
    /\ \A i \in 1..Len(data.students) : data.students[i].marks = EmptyMap

\* C24: on mount the session prompt is shown if and only if the store holds an
\* item that parses and whose data has at least one student or one exam (no
\* item, or an item that does not parse, is no session); Resume sets the data
\* to exactly the data of that item and closes the prompt.
C24_PromptIffSessionAndResumeRestores ==
    [][LET item == localStorage[STORAGE_KEY]
           parseable == item # NoItem /\ item.kind = "json"
       IN  /\ last'.op = "mount" =>
                 (showSessionModal' <=> (parseable /\ HoldsData(item.value)))
           /\ last'.op = "resume" =>
                 /\ parseable
                 /\ data' = item.value
                 /\ ~showSessionModal']_vars

\* the saved session was resumed: the data is the stored session, the prompt is
\* closed
C24_Witness ==
    /\ last.op = "resume"
    /\ data = StoredSession
    /\ ~showSessionModal
    /\ mounted

====
